---- MODULE Spec2Model ----
(***************************************************************************)
(* Model of src/files/files.cpp: the FilesProcess virtual-path namespace   *)
(* (attach / detach), the resolver, and the browse / read / download /     *)
(* debug HTTP handlers, together with the Files wrapper that dispatches    *)
(* attach and detach onto the process.                                     *)
(*                                                                         *)
(* A std::string is a sequence of one-character strings, so "d/f" is       *)
(* <<"d", "/", "f">> and the empty string is <<>>.                         *)
(***************************************************************************)
EXTENDS Integers, Sequences, FiniteSets, TLC

VARIABLES paths, last, pending, openFds, crashed, mailbox, issued, applied

vars == <<paths, last, pending, openFds, crashed, mailbox, issued, applied>>

(***************************************************************************)
(* Bounds of the model.                                                    *)
(***************************************************************************)
\* Largest number of entries the namespace holds in the model.
MaxEntries == 2

\* Number of threads that call Files::attach and Files::detach.
NumCallers == 2

\* Largest number of calls the callers dispatch in a behaviour.
MaxDispatch == 3

Callers == 1..NumCallers

(***************************************************************************)
(* stout string and path helpers used by files.cpp.                        *)
(***************************************************************************)
Slash == "/"

\* strings::remove(from, "/", strings::SUFFIX): drops ONE trailing "/".
RemoveSuffix(from) ==
  IF Len(from) > 0 /\ from[Len(from)] = Slash
    THEN SubSeq(from, 1, Len(from) - 1)
    ELSE from

\* strings::remove(from, "/", strings::PREFIX): drops ONE leading "/".
RemovePrefix(from) ==
  IF Len(from) > 0 /\ from[1] = Slash
    THEN SubSeq(from, 2, Len(from))
    ELSE from

\* strings::startsWith(s, prefix): prefix is a character prefix of s.
StartsWith(s, prefix) ==
  /\ Len(prefix) <= Len(s)
  /\ SubSeq(s, 1, Len(prefix)) = prefix

\* Positions of the "/" characters of s.
SlashPositions(s) == {i \in 1..Len(s) : s[i] = Slash}

RECURSIVE SplitFrom(_, _)
\* The tokens of s from position offset on; empty tokens are kept.
SplitFrom(s, offset) ==
  LET later == {i \in SlashPositions(s) : i >= offset}
  IN IF later = {}
       THEN <<SubSeq(s, offset, Len(s))>>
       ELSE LET next == CHOOSE i \in later : \A j \in later : i <= j
            IN <<SubSeq(s, offset, next - 1)>> \o SplitFrom(s, next + 1)

\* strings::split(s, "/"): the tokens between the "/" of s, empty ones kept,
\* so that path::join of the tokens of "/d/f" is "/d/f" again.
Split(s) == SplitFrom(s, 1)

\* path::join(path1, path2).
Join(path1, path2) == RemoveSuffix(path1) \o <<Slash>> \o RemovePrefix(path2)

RECURSIVE JoinUpTo(_, _)
JoinUpTo(tokens, n) ==
  IF n = 1 THEN tokens[1] ELSE Join(JoinUpTo(tokens, n - 1), tokens[n])

\* path::join(vector<string>): left fold of the two-argument join.
JoinAll(tokens) == IF tokens = <<>> THEN <<>> ELSE JoinUpTo(tokens, Len(tokens))

\* All but the last element: vector::pop_back.
PopBack(tokens) == SubSeq(tokens, 1, Len(tokens) - 1)

(***************************************************************************)
(* The file system the service runs on.  It is fixed: a directory /d with  *)
(* a regular file /d/f, a larger file /d/e and a symbolic link /d/l that   *)
(* points out of /d to /e; a sibling file /df whose name extends "/d" as   *)
(* a string; a file /e outside /d; and a file /x the service cannot read.  *)
(***************************************************************************)
Root   == <<"/">>
P_d    == <<"/", "d">>
P_d_f  == <<"/", "d", "/", "f">>
P_d_e  == <<"/", "d", "/", "e">>
P_d_l  == <<"/", "d", "/", "l">>
P_df   == <<"/", "d", "f">>
P_e    == <<"/", "e">>
P_x    == <<"/", "x">>

Node(kind, link, readable, size) ==
  [kind |-> kind, link |-> link, readable |-> readable, size |-> size]

FS ==
  (Root  :> Node("dir",  <<>>, TRUE,  0)) @@
  (P_d   :> Node("dir",  <<>>, TRUE,  0)) @@
  (P_d_f :> Node("file", <<>>, TRUE,  3)) @@
  (P_d_e :> Node("file", <<>>, TRUE,  20)) @@
  (P_d_l :> Node("link", P_e,  TRUE,  0)) @@
  (P_df  :> Node("file", <<>>, TRUE,  2)) @@
  (P_e   :> Node("file", <<>>, TRUE,  1)) @@
  (P_x   :> Node("file", <<>>, FALSE, 1))

\* The directory holding the canonical path cur ("/" is its own parent).
Parent(cur) ==
  LET sl == SlashPositions(cur)
      lastSlash == CHOOSE i \in sl : \A j \in sl : j <= i
  IN IF lastSlash = 1 THEN Root ELSE SubSeq(cur, 1, lastSlash - 1)

Child(cur, name) ==
  IF cur = Root THEN cur \o name ELSE cur \o <<Slash>> \o name

Try(err, value) == [err |-> err, value |-> value]

RECURSIVE Walk(_, _, _)
\* Follows the components comps[i..] from the canonical path cur.  Every
\* component is looked up in a directory; "" and "." stay, ".." goes up, a
\* name must exist and a symbolic link is replaced by its target.
Walk(comps, i, cur) ==
  IF i > Len(comps) THEN Try(FALSE, cur)
  ELSE IF FS[cur].kind # "dir" THEN Try(TRUE, <<>>)
  ELSE LET c == comps[i]
       IN IF c = <<>> \/ c = <<".">> THEN Walk(comps, i + 1, cur)
          ELSE IF c = <<".", ".">> THEN Walk(comps, i + 1, Parent(cur))
          ELSE LET child == Child(cur, c)
               IN IF child \notin DOMAIN FS THEN Try(TRUE, <<>>)
                  ELSE IF FS[child].kind = "link"
                    THEN Walk(comps, i + 1, FS[child].link)
                    ELSE Walk(comps, i + 1, child)

\* os::realpath(path): the canonical absolute path, or an error.
RealPath(path) ==
  IF path = <<>> THEN Try(TRUE, <<>>) ELSE Walk(Split(path), 1, Root)

\* os::access(path, R_OK) on a canonical path.
Access(path) == FS[path].readable

\* os::isdir(path) on a canonical path.
IsDir(path) == path \in DOMAIN FS /\ FS[path].kind = "dir"

(***************************************************************************)
(* FilesProcess::resolve.                                                  *)
(***************************************************************************)
\* A Result<string> together with what the loop did: the key it matched,
\* that key's target, the suffix it had accumulated and the number of
\* prefixes it tried.
Result(kind, value, matched, key, target, suffix, tried) ==
  [kind |-> kind, value |-> value, matched |-> matched,
   key |-> key, target |-> target, suffix |-> suffix, tried |-> tried]

\* The value of the field when resolve was not called.
NoResult == Result("NotCalled", <<>>, FALSE, <<>>, <<>>, <<>>, 0)

\* The escape check of resolve as the code makes it.
Accessible(realpath, target) == StartsWith(realpath, target)

\* The body of the loop once paths.contains(prefix).
ResolveMatched(ns, prefix, suffix, tried) ==
  LET target == ns[prefix]
  IN IF IsDir(target)
       THEN LET path == Join(target, suffix)
                realpath == RealPath(path)
            IN IF realpath.err
                 THEN Result("Error", <<>>, TRUE, prefix, target, suffix, tried)
               ELSE IF ~Accessible(realpath.value, target)
                 THEN Result("Error", <<>>, TRUE, prefix, target, suffix, tried)
               ELSE Result("Some", realpath.value, TRUE, prefix, target, suffix, tried)
     ELSE IF suffix # <<>>
       THEN Result("None", <<>>, TRUE, prefix, target, suffix, tried)
     ELSE Result("Some", target, TRUE, prefix, target, suffix, tried)

\* A step that puts the segment behind the suffix.
moveToSuffix_append(token, suffix) ==
  IF suffix = <<>> THEN token ELSE Join(suffix, token)

\* "suffix = suffix.empty() ? tokens.back() : path::join(tokens.back(),
\* suffix)": the last segment of the prefix goes in front of the suffix.
moveToSuffix(token, suffix) ==
  IF suffix = <<>> THEN token ELSE Join(token, suffix)

RECURSIVE ResolveLoop_fallback(_, _, _, _)
\* A loop that goes on to the shorter prefixes when the entry it matched
\* gives no path.
ResolveLoop_fallback(ns, tokens, suffix, tried) ==
  IF tokens = <<>> THEN Result("None", <<>>, FALSE, <<>>, <<>>, suffix, tried)
  ELSE LET prefix == JoinAll(tokens)
           shorter == ResolveLoop_fallback(ns, PopBack(tokens),
                        moveToSuffix(tokens[Len(tokens)], suffix),
                        tried + 1)
       IN IF prefix \notin DOMAIN ns THEN shorter
          ELSE IF ResolveMatched(ns, prefix, suffix, tried + 1).kind = "Some"
            THEN ResolveMatched(ns, prefix, suffix, tried + 1)
          ELSE shorter

RECURSIVE ResolveLoop(_, _, _, _)
\* The loop of resolve over the prefixes of the path, longest first.
ResolveLoop(ns, tokens, suffix, tried) ==
  IF tokens = <<>> THEN Result("None", <<>>, FALSE, <<>>, <<>>, suffix, tried)
  ELSE LET prefix == JoinAll(tokens)
       IN IF prefix \notin DOMAIN ns
            THEN ResolveLoop(ns, PopBack(tokens),
                             moveToSuffix(tokens[Len(tokens)], suffix),
                             tried + 1)
            ELSE ResolveMatched(ns, prefix, suffix, tried + 1)

\* resolve that tries the prefixes from the shortest to the longest.
resolve_shortestFirst(ns, path) ==
  LET tokens == Split(RemoveSuffix(path))
      is == {i \in 1..Len(tokens) : JoinAll(SubSeq(tokens, 1, i)) \in DOMAIN ns}
  IN IF is = {} THEN ResolveLoop(ns, tokens, <<>>, 0)
     ELSE LET i == CHOOSE j \in is : \A k \in is : j <= k
          IN ResolveMatched(ns, JoinAll(SubSeq(tokens, 1, i)),
                            JoinAll(SubSeq(tokens, i + 1, Len(tokens))), i)

resolve(ns, path) == ResolveLoop(ns, Split(RemoveSuffix(path)), <<>>, 0)


(***************************************************************************)
(* State.                                                                  *)
(*   paths    FilesProcess::paths, the namespace: key -> canonical target  *)
(*   last     the operation the process completed last, with its inputs    *)
(*            and its result                                               *)
(*   pending  the reads whose io::read future is not yet completed         *)
(*   openFds  the file descriptors that are open in the process            *)
(*   crashed  an exception left a handler and ended the process            *)
(*   mailbox  the events dispatched to the process and not yet run         *)
(*   issued   per caller, the operations it dispatched, in order           *)
(*   applied  the dispatched operations the process has run, in order      *)
(***************************************************************************)
\* A query parameter: absent, not parsable by numify, or an integer.
Absent  == [tag |-> "absent", val |-> 0]
Garbage == [tag |-> "garbage", val |-> 0]
Int32(v) == [tag |-> "int", val |-> v]

\* The query parameter "path": absent, or a string.
NoPath == [some |-> FALSE, val |-> <<>>]
SomePath(v) == [some |-> TRUE, val |-> v]

Op(op, path, name, ok, res, status) ==
  [op |-> op, path |-> path, name |-> name, ok |-> ok, res |-> res,
   status |-> status, offset |-> 0, size |-> 0, data |-> 0, count |-> 0,
   io |-> "none", opened |-> FALSE, closes |-> 0, body |-> {},
   offsetParam |-> Absent, lengthParam |-> Absent, fault |-> "none",
   prev |-> <<>>]

NoOp == Op("none", <<>>, <<>>, TRUE, NoResult, 0)

EmptyMap == [k \in {} |-> <<>>]

Init ==
  /\ paths = EmptyMap
  /\ last = NoOp
  /\ pending = {}
  /\ openFds = {}
  /\ crashed = FALSE
  /\ mailbox = <<>>
  /\ issued = [c \in Callers |-> <<>>]
  /\ applied = <<>>

(***************************************************************************)
(* FilesProcess::attach and FilesProcess::detach.                          *)
(***************************************************************************)
\* A store that keeps the entry the map already holds under key.
Put_insert(ns, key, value) ==
  [k \in DOMAIN ns \cup {key} |-> IF k \in DOMAIN ns THEN ns[k] ELSE value]

Put(ns, key, value) ==
  [k \in DOMAIN ns \cup {key} |-> IF k = key THEN value ELSE ns[k]]

Erase(ns, key) == [k \in DOMAIN ns \ {key} |-> ns[k]]

\* The name attach stores the entry under.
cleanedName(name) == RemoveSuffix(name)

\* attach that stores the entry before it checks the access.
attach_storeFirst(ns, path, name) ==
  LET result == RealPath(path)
  IN IF result.err THEN [ok |-> FALSE, ns |-> ns]
     ELSE IF ~Access(result.value)
       THEN [ok |-> FALSE, ns |-> Put(ns, cleanedName(name), result.value)]
     ELSE [ok |-> TRUE, ns |-> Put(ns, cleanedName(name), result.value)]

\* attach(path, name) on the namespace ns: the future it returns and the
\* namespace it leaves.
attach(ns, path, name) ==
  LET result == RealPath(path)
  IN IF result.err THEN [ok |-> FALSE, ns |-> ns]
     ELSE IF ~Access(result.value) THEN [ok |-> FALSE, ns |-> ns]
     ELSE [ok |-> TRUE, ns |-> Put(ns, cleanedName(name), result.value)]

\* detach that removes the entry and every entry whose key extends name.
detach_subtree(ns, name) ==
  [k \in {key \in DOMAIN ns : ~StartsWith(key, name)} |-> ns[k]]

\* detach(name) on the namespace ns.
detach(ns, name) == Erase(ns, name)

\* A handler that waits for its read to complete before it returns.
Idle_blocking == ~crashed /\ pending = {}

\* The process is free to run its next event: no handler waits for a read,
\* read returns the future of io::read and _read runs when it completes.
Idle == ~crashed

\* The target the namespace holds under key; the empty string when none.
Held(ns, key) == IF key \in DOMAIN ns THEN ns[key] ELSE <<>>

\* The process runs attach(path, name).
RunAttach(path, name) ==
  LET r == attach(paths, path, name)
  IN /\ Idle
     /\ Cardinality(DOMAIN r.ns) <= MaxEntries
     /\ paths' = r.ns
     /\ last' = [Op("attach", path, name, r.ok, NoResult, 0)
                   EXCEPT !.prev = Held(paths, cleanedName(name))]
     /\ UNCHANGED <<pending, openFds, crashed>>

\* The process runs detach(name).
RunDetach(name) ==
  /\ Idle
  /\ paths' = detach(paths, name)
  /\ last' = [Op("detach", <<>>, name, TRUE, NoResult, 0)
                EXCEPT !.prev = Held(paths, name)]
  /\ UNCHANGED <<pending, openFds, crashed>>

\* Files::attach whose dispatched call the process runs at once.
Attach(path, name) ==
  /\ RunAttach(path, name)
  /\ UNCHANGED <<mailbox, issued, applied>>

\* Files::detach whose dispatched call the process runs at once.
Detach(name) ==
  /\ RunDetach(name)
  /\ UNCHANGED <<mailbox, issued, applied>>

\* resolve(path) is applied to the namespace as it stands.
Resolve(path) ==
  /\ Idle
  /\ last' = Op("resolve", path, <<>>, TRUE, resolve(paths, path), 0)
  /\ UNCHANGED <<paths, pending, openFds, crashed, mailbox, issued, applied>>

(***************************************************************************)
(* The HTTP handlers.                                                      *)
(***************************************************************************)
OK == 200
BadRequest == 400
NotFound == 404
InternalServerError == 500

\* os::basename of a canonical path.
Basename(path) ==
  IF path = Root THEN Root
  ELSE LET sl == SlashPositions(path)
           lastSlash == CHOOSE i \in sl : \A j \in sl : j <= i
       IN SubSeq(path, lastSlash + 1, Len(path))

\* os::ls(dir): the names in a directory; empty when dir is no directory.
Ls(dir) ==
  IF ~IsDir(dir) THEN {}
  ELSE {Basename(k) : k \in {c \in DOMAIN FS : c # Root /\ Parent(c) = dir}}

\* The status a handler answers with when resolve gave no path.
browseStatus(res) ==
  IF res.kind = "Error" THEN InternalServerError
  ELSE IF res.kind = "None" THEN NotFound
  ELSE OK

readStatus(res) ==
  IF res.kind = "Error" THEN BadRequest
  ELSE IF res.kind # "Some" THEN NotFound
  ELSE OK

downloadStatus(res) ==
  IF res.kind = "Error" THEN BadRequest
  ELSE IF res.kind # "Some" THEN NotFound
  ELSE OK

Handled == UNCHANGED <<paths, pending, openFds, crashed, mailbox, issued, applied>>

\* A check of the parameter that lets the empty string through.
badPath_missingOnly(path) == ~path.some

\* "if (!path.isSome() || path.get().empty())"
badPath(path) == ~path.some \/ path.val = <<>>

\* GET /browse.json
Browse(path) ==
  /\ Idle
  /\ IF badPath(path)
       THEN last' = Op("browse", path.val, <<>>, TRUE, NoResult, BadRequest)
       ELSE LET resolvedPath == resolve(paths, path.val)
            IN IF resolvedPath.kind # "Some"
                 THEN last' = Op("browse", path.val, <<>>, TRUE, resolvedPath,
                                 browseStatus(resolvedPath))
                 ELSE last' = [Op("browse", path.val, <<>>, TRUE, resolvedPath, OK)
                                 EXCEPT !.body = {Join(path.val, filename) :
                                                    filename \in Ls(resolvedPath.value)}]
  /\ Handled

\* GET /download.json
Download(path) ==
  /\ Idle
  /\ IF badPath(path)
       THEN last' = Op("download", path.val, <<>>, TRUE, NoResult, BadRequest)
       ELSE LET resolvedPath == resolve(paths, path.val)
            IN IF resolvedPath.kind # "Some"
                 THEN last' = Op("download", path.val, <<>>, TRUE, resolvedPath,
                                 downloadStatus(resolvedPath))
               ELSE IF IsDir(resolvedPath.value)
                 THEN last' = Op("download", path.val, <<>>, TRUE, resolvedPath,
                                 BadRequest)
               ELSE last' = [Op("download", path.val, <<>>, TRUE, resolvedPath, OK)
                               EXCEPT !.body = {<<resolvedPath.value,
                                                  Basename(resolvedPath.value)>>}]
  /\ Handled

\* GET /debug.json
Debug ==
  /\ Idle
  /\ last' = [Op("debug", <<>>, <<>>, TRUE, NoResult, OK)
                EXCEPT !.body = {<<name, paths[name]>> : name \in DOMAIN paths}]
  /\ Handled

(***************************************************************************)
(* FilesProcess::read and its continuation _read.                          *)
(***************************************************************************)
\* Size of the descriptor table: os::open fails when it is full.
MaxFds == 2

\* sysconf(_SC_PAGE_SIZE) of the host, scaled down.
PageSize == 1

\* "Cap the read length at 16 pages."
Pages == 16

\* Width in bits of size_t, scaled down from 64.
SizeBits == 10

Min(a, b) == IF a <= b THEN a ELSE b

\* static_cast<size_t>(length).
ToSizeT(length) == length % (2 ^ SizeBits)

\* std::min(length, sysconf(_SC_PAGE_SIZE) * 16).
capLength(length) == Min(length, PageSize * Pages)

pastEnd_strict(offset, size) == offset > size

\* "if (offset >= size)": the read is at or past the end of the file.
pastEnd(offset, size) == offset >= size

\* The descriptor os::open returns: the lowest one that is free.
FreeFds == (1..MaxFds) \ openFds
NextFd == CHOOSE fd \in FreeFds : \A other \in FreeFds : fd <= other

\* A system call of the request fails when the environment makes it fail.
Faults == {"none", "open", "size", "seek", "nonblock"}

\* The record of a read in `last`.
ReadOp(path, res, status, offset, size, data, count, io, opened, closes) ==
  [Op("read", path, <<>>, TRUE, res, status)
     EXCEPT !.offset = offset, !.size = size, !.data = data, !.count = count,
            !.io = io, !.opened = opened, !.closes = closes]

\* The same record with the request's parameters.
Request(op, offsetParam, lengthParam, fault) ==
  [op EXCEPT !.offsetParam = offsetParam, !.lengthParam = lengthParam,
             !.fault = fault]

\* A parameter whose negative values are replaced by 0.
paramValue_clamped(param) ==
  IF param.tag = "int" THEN (IF param.val < 0 THEN 0 ELSE param.val) ELSE -1

\* "off_t offset = -1; ... offset = result.get();", the same for length: the
\* value the handler works with, -1 when the parameter is absent.
paramValue(param) == IF param.tag = "int" THEN param.val ELSE -1

\* The part of read that runs once the file is open on descriptor fd.
ReadOpened(path, resolvedPath, offsetParam, lengthParam, fault, fd) ==
  LET file == resolvedPath.value
      offsetIn == paramValue(offsetParam)
      lengthIn == paramValue(lengthParam)
      Rec(op) == Request(op, offsetParam, lengthParam, fault)
      size == FS[file].size
      offset == IF offsetIn = -1 THEN size ELSE offsetIn
      length == capLength(IF lengthIn = -1 THEN size - offset ELSE lengthIn)
      count == ToSizeT(length)
      Closed(status, off) ==
        /\ last' = Rec(ReadOp(path, resolvedPath, status, off, size, 0, 0,
                              "none", TRUE, 1))
        /\ UNCHANGED <<pending, openFds, crashed>>
  IN IF fault = "size" THEN Closed(InternalServerError, 0)
     ELSE IF pastEnd(offset, size) THEN Closed(OK, size)
     ELSE IF offset < 0 \/ fault = "seek" THEN Closed(InternalServerError, 0)
     ELSE IF fault = "nonblock"
       THEN /\ last' = Rec(ReadOp(path, resolvedPath, InternalServerError, 0,
                                  size, 0, 0, "none", TRUE, 0))
            /\ openFds' = openFds \cup {fd}
            /\ UNCHANGED <<pending, crashed>>
     ELSE IF length < 0
       THEN \* new char[length] asks for static_cast<size_t>(length) bytes and
            \* throws; the exception leaves the handler and ends the process.
            /\ last' = Rec(ReadOp(path, resolvedPath, 0, offset, size, 0,
                                  count, "alloc", TRUE, 0))
            /\ openFds' = openFds \cup {fd}
            /\ crashed' = TRUE
            /\ UNCHANGED pending
     ELSE /\ last' = Rec(ReadOp(path, resolvedPath, 0, offset, size, 0, count,
                                "pending", TRUE, 0))
          /\ openFds' = openFds \cup {fd}
          /\ pending' = pending \cup
               {[fd |-> fd, file |-> file, offset |-> offset, count |-> count,
                 offsetParam |-> offsetParam, lengthParam |-> lengthParam]}
          /\ UNCHANGED crashed

\* GET /read.json
Read(path, offsetParam, lengthParam, fault) ==
  LET Reply(res, status) ==
        /\ last' = Request(ReadOp(path.val, res, status, 0, 0, 0, 0, "none",
                                  FALSE, 0),
                           offsetParam, lengthParam, fault)
        /\ UNCHANGED <<pending, openFds, crashed>>
  IN /\ Idle
     /\ UNCHANGED <<paths, mailbox, issued, applied>>
     /\ IF badPath(path) THEN Reply(NoResult, BadRequest)
        ELSE IF offsetParam.tag = "garbage" THEN Reply(NoResult, BadRequest)
        ELSE IF lengthParam.tag = "garbage" THEN Reply(NoResult, BadRequest)
        ELSE LET resolvedPath == resolve(paths, path.val)
             IN IF resolvedPath.kind # "Some"
                  THEN Reply(resolvedPath, readStatus(resolvedPath))
                ELSE IF IsDir(resolvedPath.value)
                  THEN Reply(resolvedPath, BadRequest)
                ELSE IF fault = "open" \/ FreeFds = {}
                  THEN Reply(resolvedPath, InternalServerError)
                ELSE ReadOpened(path.val, resolvedPath, offsetParam,
                                lengthParam, fault, NextFd)

\* _read that answers with the offset the read ended at.
ReadDone_endOffset(r, n) ==
  /\ ~crashed
  /\ r \in pending
  /\ n = Min(r.count, FS[r.file].size - r.offset)
  /\ last' = [Op("_read", r.file, <<>>, TRUE, NoResult, OK)
                EXCEPT !.offset = r.offset + n, !.data = n, !.count = r.count,
                       !.size = FS[r.file].size,
                       !.offsetParam = r.offsetParam,
                       !.lengthParam = r.lengthParam,
                       !.io = "done", !.opened = TRUE, !.closes = 1]
  /\ pending' = pending \ {r}
  /\ openFds' = openFds \ {r.fd}
  /\ UNCHANGED <<paths, crashed, mailbox, issued, applied>>

\* The read of a pending request completes with n bytes: _read runs.  The
\* file is a regular file that nobody modifies, so the read returns the
\* bytes asked for, or the bytes up to the end of the file when fewer remain.
ReadDone(r, n) ==
  /\ ~crashed
  /\ r \in pending
  /\ n = Min(r.count, FS[r.file].size - r.offset)
  /\ last' = [Op("_read", r.file, <<>>, TRUE, NoResult, OK)
                EXCEPT !.offset = r.offset, !.data = n, !.count = r.count,
                       !.size = FS[r.file].size,
                       !.offsetParam = r.offsetParam,
                       !.lengthParam = r.lengthParam,
                       !.io = "done", !.opened = TRUE, !.closes = 1]
  /\ pending' = pending \ {r}
  /\ openFds' = openFds \ {r.fd}
  /\ UNCHANGED <<paths, crashed, mailbox, issued, applied>>

\* The read of a pending request fails: the future fails, _read never runs.
ReadFailed(r) ==
  /\ ~crashed
  /\ r \in pending
  /\ last' = [Op("_read", r.file, <<>>, TRUE, NoResult, 0)
                EXCEPT !.offset = r.offset, !.count = r.count,
                       !.size = FS[r.file].size,
                       !.offsetParam = r.offsetParam,
                       !.lengthParam = r.lengthParam,
                       !.io = "failed", !.opened = TRUE, !.closes = 0]
  /\ pending' = pending \ {r}
  /\ UNCHANGED <<paths, openFds, crashed, mailbox, issued, applied>>

(***************************************************************************)
(* Files: attach and detach are dispatched to the process, which runs the  *)
(* events of its mailbox one at a time, oldest first.                      *)
(***************************************************************************)
Event(caller, op, path, name) ==
  [caller |-> caller, op |-> op, path |-> path, name |-> name]

Dispatched == Len(mailbox) + Len(applied)

\* Files::attach(path, name) called by caller c.
Files_attach(c, path, name) ==
  /\ ~crashed
  /\ Dispatched < MaxDispatch
  /\ mailbox' = Append(mailbox, Event(c, "attach", path, name))
  /\ issued' = [issued EXCEPT ![c] = Append(@, Event(c, "attach", path, name))]
  /\ UNCHANGED <<paths, last, pending, openFds, crashed, applied>>

\* detach called on the process object, not dispatched.
Files_detach_direct(c, name) ==
  /\ Dispatched < MaxDispatch
  /\ RunDetach(name)
  /\ issued' = [issued EXCEPT ![c] = Append(@, Event(c, "detach", <<>>, name))]
  /\ applied' = Append(applied, Event(c, "detach", <<>>, name))
  /\ UNCHANGED mailbox

\* Files::detach(name) called by caller c.
Files_detach(c, name) ==
  /\ ~crashed
  /\ Dispatched < MaxDispatch
  /\ mailbox' = Append(mailbox, Event(c, "detach", <<>>, name))
  /\ issued' = [issued EXCEPT ![c] = Append(@, Event(c, "detach", <<>>, name))]
  /\ UNCHANGED <<paths, last, pending, openFds, crashed, applied>>

\* The process takes the oldest event of its mailbox and runs it.
Serve ==
  /\ mailbox # <<>>
  /\ LET event == Head(mailbox)
     IN /\ IF event.op = "attach"
             THEN RunAttach(event.path, event.name)
             ELSE RunDetach(event.name)
        /\ applied' = Append(applied, event)
  /\ mailbox' = Tail(mailbox)
  /\ UNCHANGED issued

(***************************************************************************)
(* Inputs.                                                                 *)
(***************************************************************************)
P_missing == <<"/", "q">>

\* Real paths given to attach: a directory, a link to a file, an unreadable
\* file, a path that does not exist.
AttachPaths == {P_d, P_d_l, P_x, P_missing}

\* Virtual names given to attach and detach.
Names ==
  { <<"d">>, <<"d", "/">>, <<"d", "/", "/">>, <<"d", "/", "f">>,
    <<"d", "/", "/", "f">>, <<"/", "d">>, <<>>, <<"/">> }

\* Virtual paths requested.
VPaths ==
  Names \cup
  { <<"/", "d", "/", "f">>, <<"d", "/", "l">>, <<"d", "/", "q">>,
    <<"d", "/", ".", ".">>, <<"d", "/", ".", ".", "/", "d", "f">>,
    <<"d", "/", ".", ".", "/", "e">>, <<"d", "/", "f", "/", "f">>,
    <<"d", "/", "e">>, <<"q">> }

PathParams == {NoPath} \cup {SomePath(v) : v \in VPaths}

Next ==
  \/ \E path \in AttachPaths, name \in Names : Attach(path, name)
  \/ \E name \in Names : Detach(name)
  \/ \E path \in VPaths : Resolve(path)
  \/ \E path \in PathParams : Browse(path)
  \/ \E path \in PathParams : Download(path)
  \/ \E path \in PathParams : Read(path, Absent, Absent, "none")
  \/ Debug

Spec == Init /\ [][Next]_vars

(***************************************************************************)
(* The read handler under all of its parameters, on a namespace that holds *)
(* at most the directory /d under the name "d".                            *)
(***************************************************************************)
N_d == <<"d">>

ReadPaths ==
  {NoPath} \cup
  {SomePath(v) : v \in { <<"d", "/", "f">>, <<"d", "/", "e">>, <<"d">>,
                         <<"d", "/", "q">>, <<>> }}

Offsets == {Absent, Garbage} \cup {Int32(v) : v \in {-2, -1, 0, 2, 3, 25}}

Lengths == {Absent, Garbage} \cup {Int32(v) : v \in {-2, -1, 0, 2, 40}}

\* The requests sent: every combination of the parameters without a failing
\* system call, and each failing system call on reads of the file /d/f.
ReadRequests ==
  (ReadPaths \X Offsets \X Lengths \X {"none"}) \cup
  ({SomePath(<<"d", "/", "f">>)} \X {Absent, Int32(0), Int32(25)}
     \X {Absent, Int32(2)} \X Faults)

\* The client sends a request once the previous one is answered.
NextRead ==
  \/ Attach(P_d, N_d)
  \/ Detach(N_d)
  \/ /\ pending = {}
     /\ \E req \in ReadRequests : Read(req[1], req[2], req[3], req[4])
  \/ /\ pending = {}
     /\ \E path \in ReadPaths : Browse(path)
  \/ /\ pending = {}
     /\ \E path \in ReadPaths : Download(path)
  \/ \E r \in pending, n \in 0..(PageSize * Pages) : ReadDone(r, n)
  \/ \E r \in pending : ReadFailed(r)

SpecRead == Init /\ [][NextRead]_vars

(***************************************************************************)
(* Callers dispatching attach and detach while the process serves its      *)
(* mailbox and answers requests.                                           *)
(***************************************************************************)
DispatchPaths == {P_d, P_missing}

DispatchNames == { <<"d">>, <<"d", "/">> }

NextDispatch ==
  \/ \E c \in Callers, path \in DispatchPaths, name \in DispatchNames :
       Files_attach(c, path, name)
  \/ \E c \in Callers, name \in DispatchNames : Files_detach(c, name)
  \/ Serve
  \/ \E path \in DispatchNames : Resolve(path)
  \/ Debug

SpecDispatch == Init /\ [][NextDispatch]_vars

(***************************************************************************)
(* Requests that arrive while reads are in flight: the name "d" is         *)
(* attached to /d or to /, so that "d/e" is the file /d/e or the file /e,  *)
(* and detached, while reads of "d/e" wait for their data.                 *)
(***************************************************************************)
AsyncTargets == {P_d, Root}

V_d_e == <<"d", "/", "e">>

V_d_q == <<"d", "/", "q">>

AsyncRequests ==
  ({SomePath(V_d_e)} \X {Int32(0), Int32(2)} \X {Absent, Int32(2), Int32(-2)}
     \X {"none"}) \cup
  { <<SomePath(V_d_e), Int32(0), Absent, "nonblock">>,
    <<SomePath(V_d_q), Absent, Absent, "none">> }

NextAsync ==
  \/ \E path \in AsyncTargets : Attach(path, N_d)
  \/ Detach(N_d)
  \/ \E req \in AsyncRequests : Read(req[1], req[2], req[3], req[4])
  \/ Browse(SomePath(N_d))
  \/ Debug
  \/ \E r \in pending, n \in 0..(PageSize * Pages) : ReadDone(r, n)
  \/ \E r \in pending : ReadFailed(r)

SpecAsync == Init /\ [][NextAsync]_vars

(***************************************************************************)
(* The resolver on overlapping entries: the names "" and "/d" attached to  *)
(* the root directory, the directory /d or the file /e.                    *)
(***************************************************************************)
OverlapTargets == {Root, P_d, P_d_l}

OverlapNames == { <<>>, <<"/", "d">> }

OverlapVPaths ==
  { <<"/", "d", "/", "f">>, <<"/", "d", "/", "l">>, <<"/", "d", "/", "q">>,
    <<"/", "d">>, <<"/", "e">>, <<>> }

NextOverlap ==
  \/ \E path \in OverlapTargets, name \in OverlapNames : Attach(path, name)
  \/ \E name \in OverlapNames : Detach(name)
  \/ \E path \in OverlapVPaths : Resolve(path)

SpecOverlap == Init /\ [][NextOverlap]_vars

(***************************************************************************)
(* Properties of the resolver and the namespace, checked under Spec.       *)
(***************************************************************************)
\* The names of the directories from the root down to the canonical path p.
Segments(p) == IF p = Root THEN <<>> ELSE Tail(Split(p))

\* The canonical path p is the directory D or lies below it, by segments.
Within(p, D) ==
  /\ Len(Segments(D)) <= Len(Segments(p))
  /\ SubSeq(Segments(p), 1, Len(Segments(D))) = Segments(D)

\* The last operation called resolve.
Resolved == last.res.kind # "NotCalled"

\* C1 - Escape prevention: when resolve matches an entry whose target D is a
\* directory, it returns a path only if the canonical candidate is D or lies
\* below D segment by segment, and for every other canonical candidate it
\* returns Error.
EscapePrevention ==
  (Resolved /\ last.res.matched /\ IsDir(last.res.target)) =>
    LET D == last.res.target
        candidate == RealPath(Join(D, last.res.suffix))
    IN /\ last.res.kind = "Some" => Within(last.res.value, D)
       /\ (~candidate.err /\ ~Within(candidate.value, D)) =>
            last.res.kind = "Error"

\* The key k is a prefix of the virtual path v that ends where a segment of v
\* ends.
IsSegmentPrefix(k, v) ==
  /\ StartsWith(v, k)
  /\ Len(k) = Len(v) \/ v[Len(k) + 1] = Slash

Longest(keys) == CHOOSE k \in keys : \A other \in keys : Len(other) <= Len(k)

\* C2 as stated - the entry resolve(v) uses is the one whose key is the
\* longest segment prefix of v that is a key of the namespace.
LongestSegmentPrefix ==
  Resolved =>
    LET keys == {k \in DOMAIN paths : IsSegmentPrefix(k, last.path)}
    IN IF keys = {}
         THEN ~last.res.matched
         ELSE last.res.matched /\ last.res.key = Longest(keys)

\* The prefixes resolve can try for v: v without one trailing "/" is split
\* at "/" and the first i tokens are joined again with path::join.
Tokens(v) == Split(RemoveSuffix(v))
JoinedPrefix(v, i) == JoinAll(SubSeq(Tokens(v), 1, i))
Candidates(ns, v) == {i \in 1..Len(Tokens(v)) : JoinedPrefix(v, i) \in DOMAIN ns}
Most(is) == CHOOSE i \in is : \A j \in is : j <= i

\* C2 (amended) - Longest-prefix match: the entry resolve(v) uses is the one
\* whose key is the longest joined token prefix of v that is a key of the
\* namespace, and no entry is used when no joined token prefix is a key; so
\* with both d and d/f attached, d/f/f is resolved through d/f, never d.
LongestJoinedPrefix ==
  Resolved =>
    LET is == Candidates(paths, last.path)
    IN IF is = {}
         THEN ~last.res.matched
         ELSE /\ last.res.matched
              /\ last.res.key = JoinedPrefix(last.path, Most(is))

N_d_f == <<"d", "/", "f">>

OverlapResolved ==
  /\ Resolved
  /\ last.path = <<"d", "/", "f", "/", "f">>
  /\ {N_d, N_d_f} \subseteq DOMAIN paths
  /\ last.res.matched
  /\ last.res.key = N_d_f

\* C3 - Attach/resolve round trip: a successful attach(p, n) followed at
\* once by resolve(n) returns the canonical form of p.
AttachResolveRoundTrip ==
  [][(/\ last.op = "attach" /\ last.ok
      /\ last'.op = "resolve" /\ last'.path = last.name)
     => (/\ last'.res.kind = "Some"
         /\ last'.res.value = RealPath(last.path).value)]_vars

\* C4 - Detach undoes attach: after a successful attach(p, n) followed by
\* detach(n), the namespace holds no entry for n, and n and the paths under
\* n that no other key is a prefix of resolve to NotFound.
DetachUndoesAttach ==
  [][(/\ last.op = "attach" /\ last.ok
      /\ last'.op = "detach" /\ last'.name = last.name)
     => LET key == cleanedName(last.name)
            Under(v) == key \in {JoinedPrefix(v, i) : i \in 1..Len(Tokens(v))}
            Others(v) == {i \in Candidates(paths', v) : JoinedPrefix(v, i) # key}
        IN /\ key \notin DOMAIN paths'
           /\ \A v \in VPaths :
                (Under(v) /\ Others(v) = {}) => resolve(paths', v).kind = "None"]_vars

\* C8 - In browse, read and download alike a resolver Error is answered
\* with 500 and a resolver NotFound with 404.
ResolutionStatus ==
  last.op \in {"browse", "read", "download"} =>
    /\ last.res.kind = "Error" => last.status = InternalServerError
    /\ last.res.kind = "None" => last.status = NotFound

\* C9 - Failed attach changes nothing: when the canonicalization of p fails
\* or the canonical path is not readable, attach(p, n) fails, and a failed
\* attach leaves the namespace as it was.
FailedAttachChangesNothing ==
  [][last'.op = "attach" =>
       LET result == RealPath(last'.path)
       IN /\ (result.err \/ ~Access(result.value)) => ~last'.ok
          /\ ~last'.ok => paths' = paths]_vars

FailedAttachOverEntry ==
  /\ last.op = "attach"
  /\ ~last.ok
  /\ cleanedName(last.name) \in DOMAIN paths

\* C12 - Re-attach replaces: a successful attach(p2, n) leaves exactly the
\* keys it found plus the cleaned name of n, maps the cleaned name to the
\* canonical form of p2 whatever it was mapped to before, leaves every other
\* entry unchanged, makes the resolutions of the cleaned name and of a path
\* below it that match this entry use p2, and one detach of the cleaned name
\* then leaves no entry for it.
ReattachReplaces ==
  [][(last'.op = "attach" /\ last'.ok) =>
       LET key == cleanedName(last'.name)
           p2 == RealPath(last'.path).value
           after == detach(paths', key)
       IN /\ DOMAIN paths' = DOMAIN paths \cup {key}
          /\ paths'[key] = p2
          /\ \A k \in DOMAIN paths \ {key} : paths'[k] = paths[k]
          /\ \A v \in {key, Join(key, <<"f">>)} :
               LET r == resolve(paths', v)
               IN (r.matched /\ r.key = key) => r.target = p2
          /\ key \notin DOMAIN after
          /\ \A k \in DOMAIN after : after[k] = paths'[k]]_vars

ReattachedOverEntry ==
  /\ last.op = "attach"
  /\ last.ok
  /\ last.prev # <<>>
  /\ last.prev # paths[cleanedName(last.name)]
  /\ Cardinality(DOMAIN paths) > 1

\* C13 - Key normalisation invariant: after any sequence of attach and
\* detach operations, with names that end in several "/" among them, no key
\* of the namespace ends with "/".
KeyNormalisation ==
  \A key \in DOMAIN paths : key = <<>> \/ key[Len(key)] # Slash

\* C14 - Detach frame: detach(n) never fails; when n is not a key the
\* namespace is left as it was, and when n is a key only that entry is
\* removed and every other entry, the keys that extend n among them, keeps
\* its value.
DetachFrame ==
  [][last'.op = "detach" =>
       LET n == last'.name
       IN /\ last'.ok
          /\ ~crashed'
          /\ n \notin DOMAIN paths => paths' = paths
          /\ DOMAIN paths' = DOMAIN paths \ {n}
          /\ \A k \in DOMAIN paths \ {n} : paths'[k] = paths[k]]_vars

DetachedBelowExtension ==
  /\ last.op = "detach"
  /\ last.name = N_d
  /\ last.prev # <<>>
  /\ N_d \notin DOMAIN paths
  /\ N_d_f \in DOMAIN paths

\* C15 - The resolver decides on the longest matching prefix and never
\* falls back to a shorter one: when the longest matching key maps to a
\* non-directory and the suffix is not empty the result is NotFound, and when
\* it maps to a directory whose candidate fails the canonicalization or the
\* escape check the result is Error, whatever a shorter key would give.
NoFallback ==
  Resolved =>
    LET is == Candidates(paths, last.path)
    IN is # {} =>
         LET key == JoinedPrefix(last.path, Most(is))
             target == paths[key]
             suffix == last.res.suffix
             candidate == RealPath(Join(target, suffix))
         IN /\ last.res.matched
            /\ last.res.key = key
            /\ (~IsDir(target) /\ suffix # <<>>) => last.res.kind = "None"
            /\ (IsDir(target) /\ (candidate.err
                                   \/ ~Accessible(candidate.value, target)))
                 => last.res.kind = "Error"

\* The namespace without the entry the resolver used would have resolved
\* the path to an existing file.
ShorterWouldResolve ==
  LET shorter == resolve(Erase(paths, last.res.key), last.path)
  IN shorter.kind = "Some" /\ ~IsDir(shorter.value)

FallbackDeclined ==
  /\ Resolved
  /\ last.res.matched
  /\ ~IsDir(last.res.target)
  /\ last.res.suffix # <<>>
  /\ last.res.kind = "None"
  /\ ShorterWouldResolve

FallbackDeclinedOnError ==
  /\ Resolved
  /\ last.res.matched
  /\ IsDir(last.res.target)
  /\ last.res.kind = "Error"
  /\ ShorterWouldResolve

\* The segments the loop moved from the prefix into the suffix.
Moved(res, v) ==
  SubSeq(Tokens(v), Len(Tokens(v)) - res.tried + (IF res.matched THEN 2 ELSE 1),
         Len(Tokens(v)))

\* The prefix the loop stopped at, joined with the suffix it had then.
Rejoined(res) ==
  IF ~res.matched THEN res.suffix
  ELSE IF res.suffix = <<>> THEN res.key
  ELSE Join(res.key, res.suffix)

NonEmpty(tokens) == SelectSeq(tokens, LAMBDA t : t # <<>>)

\* C16 as stated - resolve ends after at most as many iterations as the
\* path has segments, every iteration without a match moves one segment
\* from the prefix to the front of the suffix, so that the prefix joined
\* with the suffix equals the stripped input, and the result is NotFound
\* exactly when no segment prefix of the path is a key.
SegmentWalk ==
  Resolved =>
    LET v == last.path
        n == Len(Tokens(v))
    IN /\ last.res.tried <= n
       /\ last.res.matched => last.res.key = JoinedPrefix(v, n - last.res.tried + 1)
       /\ ~last.res.matched => last.res.tried = n
       /\ Rejoined(last.res) = RemoveSuffix(v)
       /\ last.res.kind = "None" <=> Candidates(paths, v) = {}

\* C16 (amended) - resolve ends after at most as many iterations as the
\* stripped path has tokens, every iteration without a match moves one token
\* from the prefix to the front of the suffix, so the suffix holds the moved
\* tokens in order (the empty ones dropped by path::join) and, for a path
\* without empty tokens, the prefix joined with the suffix is the stripped
\* input; the result is NotFound exactly when no joined token prefix is a
\* key or the key matched maps to a non-directory and the suffix is not
\* empty.
TokenWalk ==
  Resolved =>
    LET v == last.path
        n == Len(Tokens(v))
        res == last.res
    IN /\ res.tried <= n
       /\ res.matched => res.key = JoinedPrefix(v, n - res.tried + 1)
       /\ ~res.matched => res.tried = n
       /\ NonEmpty(Split(res.suffix)) = NonEmpty(Moved(res, v))
       /\ (n = 1 \/ NonEmpty(Tokens(v)) = Tokens(v)) =>
            Rejoined(res) = RemoveSuffix(v)
       /\ res.kind = "None" <=>
            \/ Candidates(paths, v) = {}
            \/ res.matched /\ ~IsDir(res.target) /\ res.suffix # <<>>

WalkedPastEntry ==
  /\ Resolved
  /\ last.path = <<"d", "/", ".", ".", "/", "d", "f">>
  /\ last.res.matched
  /\ last.res.key = N_d
  /\ last.res.tried = 3
  /\ N_d_f \in DOMAIN paths

WalkedToTheEnd ==
  /\ Resolved
  /\ ~last.res.matched
  /\ last.res.tried = 3
  /\ last.res.kind = "None"
  /\ DOMAIN paths # {}

(***************************************************************************)
(* Properties of the read handler, checked under SpecRead.                 *)
(***************************************************************************)
\* C5 - No file-descriptor leak: a descriptor opened by a read request is
\* closed exactly once by the time the request is answered or its future
\* fails, so while the process runs every open descriptor belongs to a read
\* that is still pending.
NoDescriptorLeak ==
  ~crashed =>
    /\ openFds \subseteq {r.fd : r \in pending}
    /\ (last.opened /\ last.io # "pending") => last.closes = 1

\* C6 - Length cap: the byte count used to allocate the buffer and passed to
\* the read is between 0 and 16 pages, and so is the data answered.
LengthCap ==
  /\ (last.op = "read" /\ last.io \in {"pending", "alloc"}) =>
       (0 <= last.count /\ last.count <= PageSize * Pages)
  /\ (last.op = "_read" /\ last.io = "done") =>
       (last.count <= PageSize * Pages /\ last.data <= PageSize * Pages)

\* The read got as far as learning the size of the file.
SizeKnown == last.op = "read" /\ last.opened /\ last.fault # "size"

\* C7 - Offset at or past the end: a read whose offset is absent, or is a
\* supplied value >= the size of the file, is answered, for every length,
\* with success, offset = size and empty data; no read is started and the
\* descriptor is closed.
OffsetPastEnd ==
  (/\ SizeKnown
   /\ \/ last.offsetParam.tag = "absent"
      \/ last.offsetParam.tag = "int" /\ last.offsetParam.val >= last.size)
  => (/\ last.status = OK
      /\ last.offset = last.size
      /\ last.data = 0
      /\ last.io = "none"
      /\ last.closes = 1)

PastEndAnswered ==
  /\ SizeKnown
  /\ last.offsetParam = Int32(25)
  /\ last.lengthParam = Int32(-2)
  /\ last.status = OK
  /\ last.offset = 3

\* The request fails the validation of its parameters: the path is missing
\* or empty, or it is a read whose offset or length is no integer.
Invalid(op) ==
  /\ op.op \in {"browse", "read", "download"}
  /\ \/ op.path = <<>>
     \/ op.op = "read" /\ "garbage" \in {op.offsetParam.tag, op.lengthParam.tag}

\* C18 - Validation precedes resolution and has no side effects: browse,
\* read and download answer 400 for a missing or empty path, and read
\* answers 400 for an offset or length that is no integer, in every
\* namespace and whether or not the path would resolve; resolve is not
\* called, the namespace is not changed and no file is opened.
ValidationFirst ==
  [][Invalid(last') =>
       /\ last'.status = BadRequest
       /\ last'.res = NoResult
       /\ ~last'.opened
       /\ paths' = paths
       /\ openFds' = openFds
       /\ pending' = pending]_vars

InvalidOnResolvablePath ==
  /\ last.op = "read"
  /\ last.offsetParam = Int32(0)
  /\ last.lengthParam = Garbage
  /\ last.status = BadRequest
  /\ resolve(paths, last.path).kind = "Some"
  /\ ~IsDir(resolve(paths, last.path).value)

\* The parameter is absent or is the value -1.
Sentinel(param) == param.tag = "absent" \/ param = Int32(-1)

\* The offset supplied lies inside the file.
OffsetInside(op) ==
  /\ op.offsetParam.tag = "int"
  /\ 0 <= op.offsetParam.val
  /\ op.offsetParam.val < op.size

\* The length asked for: to the end of the file when none is given.
Asked(op) ==
  IF Sentinel(op.lengthParam) THEN op.size - op.offsetParam.val
  ELSE op.lengthParam.val

\* C17 - Read result: for a regular file of size s and a supplied offset o
\* with 0 <= o < s, the read is started at o, and its response has the
\* offset o and as data the bytes of the file from o on, of a length no
\* greater than min(length, s - o), where the length is s - o when none is
\* given (or -1 is given, see C19); the response is a function of the file,
\* the offset and the length; and a supplied negative offset never starts a
\* read or answers with data.
ReadResult ==
  /\ (last.op = "read" /\ last.opened /\ last.fault = "none"
        /\ OffsetInside(last) /\ Asked(last) >= 0) =>
       (last.io = "pending" /\ last.offset = last.offsetParam.val)
  /\ (last.op = "_read" /\ last.io = "done" /\ OffsetInside(last)) =>
       /\ last.status = OK
       /\ last.offset = last.offsetParam.val
       /\ 0 <= last.data
       /\ last.data <= Min(Asked(last), last.size - last.offset)
       /\ last.data = Min(Min(Asked(last), PageSize * Pages),
                          last.size - last.offset)
  /\ (last.op \in {"read", "_read"} /\ last.offsetParam.tag = "int"
        /\ last.offsetParam.val < 0) =>
       (last.data = 0 /\ last.io \notin {"pending", "done"})

ReadToTheEnd ==
  /\ last.op = "_read"
  /\ last.io = "done"
  /\ last.path = P_d_f
  /\ last.offsetParam = Int32(2)
  /\ last.lengthParam = Int32(2)
  /\ last.offset = 2
  /\ last.data = 1

\* C19 - Sentinel conflation in read: a request that supplies offset=-1 is
\* handled like a request with no offset, the offset becomes the size of
\* the file and the answer is offset = size with empty data; a request that
\* supplies length=-1 is handled like a request with no length, the length
\* becomes size - offset.
SentinelConflation ==
  /\ (SizeKnown /\ Sentinel(last.offsetParam)) =>
       /\ last.status = OK
       /\ last.offset = last.size
       /\ last.data = 0
       /\ last.io = "none"
  /\ (last.op = "read" /\ last.opened /\ last.fault = "none"
        /\ OffsetInside(last) /\ Sentinel(last.lengthParam)) =>
       /\ last.io = "pending"
       /\ last.count = capLength(last.size - last.offset)
  /\ (last.op = "_read" /\ last.io = "done" /\ Sentinel(last.lengthParam)) =>
       last.data = capLength(last.size - last.offset)

SuppliedSentinelLength ==
  /\ last.op = "_read"
  /\ last.io = "done"
  /\ last.path = P_d_f
  /\ last.offsetParam = Int32(0)
  /\ last.lengthParam = Int32(-1)
  /\ last.data = 3

SuppliedSentinelOffset ==
  /\ SizeKnown
  /\ last.offsetParam = Int32(-1)
  /\ last.lengthParam = Int32(2)
  /\ last.status = OK
  /\ last.offset = last.size

(***************************************************************************)
(* Properties of requests in flight, checked under SpecAsync.              *)
(***************************************************************************)
\* The bytes the read of the pending request r returns.
Bytes(r) == Min(r.count, FS[r.file].size - r.offset)

\* C11 - Non-blocking read: while the read of a request is pending the
\* process runs attach, detach and the other HTTP requests to completion,
\* none of them waits for the read, and the pending request is answered as
\* soon as its read completes: in every state with a pending read the
\* process can take the step that runs attach, detach, /debug.json, a
\* /browse.json and a /read.json request, each to its answer, and the step
\* that answers a pending read with the bytes it read.
NonBlockingRead ==
  (pending # {} /\ ~crashed) =>
    /\ \A path \in AsyncTargets :
         ENABLED (Attach(path, N_d) /\ last'.op = "attach" /\ last'.ok)
    /\ ENABLED (Detach(N_d) /\ last'.op = "detach")
    /\ ENABLED (Debug /\ last'.status = OK)
    /\ ENABLED (Browse(NoPath) /\ last'.status = BadRequest)
    /\ ENABLED (Read(SomePath(V_d_e), Garbage, Absent, "none")
                  /\ last'.status = BadRequest)
    /\ \A r \in pending :
         ENABLED (ReadDone(r, Bytes(r)) /\ last'.status = OK
                    /\ last'.io = "done")

DetachedWhileReading ==
  /\ last.op = "detach"
  /\ last.prev # <<>>
  /\ Cardinality(pending) = 2

\* The descriptors that are open and belong to no pending read.
Leaked == openFds \ {r.fd : r \in pending}

\* The operation failed: an error status, a failed attach, a failed read or
\* an exception.
Failed(op) ==
  \/ op.op \in {"browse", "read", "download"}
       /\ op.status \in {BadRequest, NotFound, InternalServerError}
  \/ op.op = "attach" /\ ~op.ok
  \/ op.io \in {"failed", "alloc"}

\* C20 - An in-flight read is isolated from later namespace changes: an
\* attach or detach that runs while reads are pending leaves them as they
\* are, the response of a read carries the data of the file resolved when
\* the request was made; and an operation that fails leaves the namespace,
\* the other reads in flight and what later requests depend on (the process
\* running, the descriptors free) unchanged.
RequestIsolation ==
  [][/\ last'.op \in {"attach", "detach"} =>
          (pending' = pending /\ openFds' = openFds)
     /\ (last'.op = "_read" /\ last'.io = "done") =>
          \E r \in pending :
            /\ pending' = pending \ {r}
            /\ last'.path = r.file
            /\ last'.offset = r.offset
            /\ last'.data = Bytes(r)
     /\ Failed(last') =>
          /\ paths' = paths
          /\ pending' \subseteq pending
          /\ crashed' = crashed
          /\ Leaked' = Leaked]_vars

(***************************************************************************)
(* Properties of the dispatch onto the process, checked under SpecDispatch.*)
(***************************************************************************)
RECURSIVE Replay(_, _)
\* The namespace after the first k of the events es ran, one after another.
Replay(es, k) ==
  IF k = 0 THEN EmptyMap
  ELSE LET ns == Replay(es, k - 1)
           e == es[k]
       IN IF e.op = "attach" THEN attach(ns, e.path, e.name).ns
          ELSE detach(ns, e.name)

ByCaller(es, c) == SelectSeq(es, LAMBDA e : e.caller = c)

Listing(ns) == {<<name, ns[name]>> : name \in DOMAIN ns}

====
